---- MODULE Spec2Model ----
(***************************************************************************)
(* The Cafe API of main.py: one table `cafe` behind five JSON handlers.    *)
(* Each handler runs one database transaction, so each is one action.      *)
(* Strings are kept as strings; a value that may be absent (a query        *)
(* parameter read with .get(), an environment variable, a nullable column) *)
(* is None or Some(s).  The database is the PostgreSQL server the          *)
(* connection string names: the integer primary key draws its value from   *)
(* a sequence unless the INSERT gives the id itself.                       *)
(***************************************************************************)
EXTENDS Integers, FiniteSets, Sequences, TLC

VARIABLES
    table,           \* the rows of table cafe: id -> row
    cafe_id_seq,     \* last value handed out by the id column's sequence
    top_secret_key,  \* os.environ.get('top_secret_key'), fixed for the process
    request,         \* the request the last step handled
    response,        \* the response it produced
    assigned         \* history: every id a row has ever been created with

vars == <<table, cafe_id_seq, top_secret_key, request, response, assigned>>

\* Upper bound on the ids the sequence hands out (caps the table's growth).
MaxSeq == 4

None == <<>>
Some(s) == <<s>>

----------------------------------------------------------------------------
(* The table: class Cafe and the three rows inserted at start-up.          *)

Columns ==
    {"id", "name", "map_url", "img_url", "location", "seats", "has_toilet",
     "has_wifi", "has_sockets", "can_take_calls", "coffee_price"}

FormFields ==
    {"name", "map_url", "img_url", "location", "seats", "has_toilet",
     "has_wifi", "has_sockets", "can_take_calls", "coffee_price"}

Cafe(id, name, map_url, img_url, location, seats, has_toilet, has_wifi, has_sockets, can_take_calls, coffee_price) ==
    [id |-> id, name |-> name, map_url |-> map_url, img_url |-> img_url,
     location |-> location, seats |-> seats, has_toilet |-> has_toilet,
     has_wifi |-> has_wifi, has_sockets |-> has_sockets,
     can_take_calls |-> can_take_calls, coffee_price |-> coffee_price]

\* Cafe.to_dict: one key per column, holding the row's attribute.
to_dict(cafe) == [column \in Columns |-> cafe[column]]

newcafe ==
    Cafe(1, "Science Gallary London", "https://g.page/scigallerylon?share",
         "https://atlondonbridge.com/wp-content/uploads/2019/02/Pano_9758_9761-Edit-190918_LTS_Science_Gallery-Medium-Crop-V2.jpg",
         "London Bridge", "50+", TRUE, TRUE, TRUE, TRUE, Some("100"))

newcafe1 ==
    Cafe(2, "Social - Copeland Road", "https://g.page/CopelandSocial?share",
         "https://images.squarespace-cdn.com/content/v1/5734f3ff4d088e2c5b08fe13/1555848382269-9F13FE1WQDNUUDQOAOXF/ke17ZwdGBToddI8pDm48kAeyi0pcxjZfLZiASAF9yCBZw-zPPgdn4jUwVcJE1ZvWQUxwkmyExglNqGp0IvTJZUJFbgE-7XRK3dMEBRBhUpzV8NE8s7067ZLWyi1jRvJklJnlBFEUyq1al9AqaQ7pI4DcRJq_Lf3JCtFMXgpPQyk/copeland-park-bar-peckham",
         "Peckham", "20-30", TRUE, TRUE, TRUE, FALSE, Some("£2.75"))

newcafe3 ==
    Cafe(3, "One & All Cafe Peckham", "https://g.page/one-all-cafe?share",
         "https://lh3.googleusercontent.com/p/AF1QipOMzXpKAQNyUvrjTGHqCgWk8spwnzwP8Ml2aDKt=s0",
         "Peckham", "20-30", TRUE, TRUE, TRUE, FALSE, Some("£2.75"))

SeedRows == {newcafe, newcafe1, newcafe3}

SeedTable == [i \in {c.id : c \in SeedRows} |-> CHOOSE c \in SeedRows : c.id = i]

----------------------------------------------------------------------------
(* The inputs the requests are drawn from.                                 *)

\* Values of top_secret_key: unset, or set.
SecretKeys == {None, Some("password")}

\* Values of ?api_key=: omitted, empty, the secret.
ApiKeys == {None, Some(""), Some("password")}

\* Ids given in the path of update_price and report-closed.
Ids == 1..MaxSeq

\* Values of ?new_price=: omitted or given.
NewPrices == {None, Some("£2.75")}

\* Values of ?loc=: omitted, two locations, and one in another case.
Locs == {None, Some("Peckham"), Some("peckham"), Some("Soho")}

\* The boolean form fields as submitted: over the forms each of the four
\* fields gets a different combination of strings, and only "True" is the
\* literal the handler looks for.
NewForm(name, location, has_toilet, has_wifi, has_sockets, can_take_calls) ==
    [name |-> name, map_url |-> "https://g.page/joes", img_url |-> "https://joes/a.jpg",
     location |-> location, seats |-> "10-20", has_toilet |-> has_toilet,
     has_wifi |-> has_wifi, has_sockets |-> has_sockets,
     can_take_calls |-> can_take_calls, coffee_price |-> "£2.50"]

\* Complete forms: one with a new name, one with the name of a start-up row.
FullForms ==
    {NewForm("Joe's", "Soho", "True", "True", "true", "1"),
     NewForm("Science Gallary London", "Peckham", "True", "False", "True", "")}

\* A form with one field left out.
Without(form, field) == [f \in (DOMAIN form) \ {field} |-> form[f]]

BaseForm == NewForm("Joe's", "Soho", "True", "True", "true", "1")

Forms == FullForms \cup {Without(BaseForm, f) : f \in FormFields}

NoForm == [f \in {} |-> ""]

Request(op, id, arg, form) == [op |-> op, id |-> id, arg |-> arg, form |-> form]

\* jsonify(key=...) with a status; cafes is the list under "cafes" when key is that.
Response(status, key, cafes) == [status |-> status, key |-> key, cafes |-> cafes]

----------------------------------------------------------------------------
(* Start-up: the three rows are inserted with explicit ids, which leaves   *)
(* the id sequence at its start.                                           *)

Init ==
    /\ table = SeedTable
    /\ cafe_id_seq = 0
    /\ top_secret_key \in SecretKeys
    /\ request = Request("start", 0, None, NoForm)
    /\ response = Response(0, "", {})
    /\ assigned = DOMAIN SeedTable

----------------------------------------------------------------------------
(* GET /all                                                                *)

all_cafes_list(t) == {to_dict(t[i]) : i \in DOMAIN t}

all_cafes ==
    /\ request' = Request("all", 0, None, NoForm)
    /\ response' = Response(200, "cafes", all_cafes_list(table))
    /\ UNCHANGED <<table, cafe_id_seq, top_secret_key, assigned>>

(* GET /search?loc=                                                        *)

\* Faulty variant of matched_cafes: the match ignores the case of the first letter.
Capitalized(s) == IF s = "peckham" THEN "Peckham" ELSE s

matched_cafes_any_case(t, location) ==
    IF location = None THEN {}
    ELSE {i \in DOMAIN t : Capitalized(t[i].location) = Capitalized(location[1])}

\* Cafe.query.filter_by(location=location).all(); an omitted loc compares
\* against NULL, which no row of a NOT NULL column matches.
matched_cafes(t, location) ==
    IF location = None THEN {}
    ELSE {i \in DOMAIN t : Some(t[i].location) = location}

search_cafes(loc) ==
    /\ request' = Request("search", 0, loc, NoForm)
    /\ LET matched == matched_cafes(table, loc) IN
       IF Cardinality(matched) = 0
       THEN response' = Response(200, "error", {})
       ELSE response' = Response(200, "cafes", {to_dict(table[i]) : i \in matched})
    /\ UNCHANGED <<table, cafe_id_seq, top_secret_key, assigned>>

----------------------------------------------------------------------------
(* POST /add                                                               *)

\* Faulty variant of ParseBool: any spelling of true counts.
ParseBoolAnyCase(s) == s \in {"True", "true", "TRUE"}

\* request.form['has_toilet'] == 'True'
ParseBool(s) == s = "True"

\* request.form[field] raises a bad-request KeyError when the field is absent.
MissingField(form) == \E f \in FormFields : f \notin DOMAIN form

\* Faulty variant of IntegrityError: the name column is not unique.
PrimaryKeyError(t, cafe) == cafe.id \in DOMAIN t

\* The INSERT fails on the primary key or on the unique name.
IntegrityError(t, cafe) ==
    \/ cafe.id \in DOMAIN t
    \/ \E i \in DOMAIN t : t[i].name = cafe.name

Insert(t, cafe) == [i \in DOMAIN t \cup {cafe.id} |-> IF i = cafe.id THEN cafe ELSE t[i]]

\* db.session.add(new_cafe); db.session.commit(): the id is the sequence's
\* next value, which is consumed even when the INSERT fails.
commit_add(cafe) ==
    /\ cafe_id_seq < MaxSeq
    /\ cafe_id_seq' = cafe_id_seq + 1
    /\ LET new_cafe == [cafe EXCEPT !.id = cafe_id_seq + 1] IN
       IF IntegrityError(table, new_cafe)
       THEN /\ response' = Response(500, "", {})
            /\ UNCHANGED <<table, assigned>>
       ELSE /\ table' = Insert(table, new_cafe)
            /\ assigned' = assigned \cup {new_cafe.id}
            /\ response' = Response(200, "response", {})

\* Faulty variant of add: coffee_price is read with .get(), as the nullable
\* column would allow.
add_price_optional(form) ==
    /\ request' = Request("add", 0, None, form)
    /\ IF \E f \in FormFields \ {"coffee_price"} : f \notin DOMAIN form
       THEN /\ response' = Response(400, "", {})
            /\ UNCHANGED <<table, cafe_id_seq, assigned>>
       ELSE commit_add(Cafe(0, form.name, form.map_url, form.img_url, form.location,
                            form.seats, ParseBool(form.has_toilet),
                            ParseBool(form.has_wifi), ParseBool(form.has_sockets),
                            ParseBool(form.can_take_calls),
                            IF "coffee_price" \in DOMAIN form
                            THEN Some(form.coffee_price) ELSE None))
    /\ UNCHANGED top_secret_key

add(form) ==
    /\ request' = Request("add", 0, None, form)
    /\ IF MissingField(form)
       THEN /\ response' = Response(400, "", {})
            /\ UNCHANGED <<table, cafe_id_seq, assigned>>
       ELSE commit_add(Cafe(0, form.name, form.map_url, form.img_url, form.location,
                            form.seats, ParseBool(form.has_toilet),
                            ParseBool(form.has_wifi), ParseBool(form.has_sockets),
                            ParseBool(form.can_take_calls), Some(form.coffee_price)))
    /\ UNCHANGED top_secret_key

----------------------------------------------------------------------------
(* PATCH /update_price/<id>?new_price=                                     *)

SetPrice(cafe, new_price) == [cafe EXCEPT !.coffee_price = new_price]

\* Faulty variant of Update: the UPDATE has no WHERE clause.
UpdateEveryRow(t, id, new_price) == [i \in DOMAIN t |-> SetPrice(t[i], new_price)]

\* specified_cafe.coffee_price = new_price; db.session.commit()
Update(t, id, new_price) == [t EXCEPT ![id] = SetPrice(t[id], new_price)]

\* Faulty variant of update_price: the not-found response lacks its status,
\* as the one of search_cafes does.
update_price_no_status(id, new_price) ==
    /\ request' = Request("update_price", id, new_price, NoForm)
    /\ IF id \notin DOMAIN table
       THEN /\ response' = Response(200, "error", {})
            /\ UNCHANGED table
       ELSE /\ table' = Update(table, id, new_price)
            /\ response' = Response(200, "success", {})
    /\ UNCHANGED <<cafe_id_seq, top_secret_key, assigned>>

update_price(id, new_price) ==
    /\ request' = Request("update_price", id, new_price, NoForm)
    /\ IF id \notin DOMAIN table
       THEN /\ response' = Response(404, "error", {})
            /\ UNCHANGED table
       ELSE /\ table' = Update(table, id, new_price)
            /\ response' = Response(200, "success", {})
    /\ UNCHANGED <<cafe_id_seq, top_secret_key, assigned>>

----------------------------------------------------------------------------
(* DELETE /report-closed/<id>?api_key=                                     *)

\* Faulty variant of Forbidden: an unset secret lets nobody in.
ForbiddenWhenUnset(api_key, secret) == secret = None \/ api_key # secret

\* api_key != top_secret_key
Forbidden(api_key, secret) == api_key # secret

\* Faulty variant of Delete: the deletion is never committed.
DeleteNothing(t, id) == t

\* db.session.delete(specified_cafe); db.session.commit()
Delete(t, id) == [i \in (DOMAIN t) \ {id} |-> t[i]]

\* Faulty variant of report_closed: the row is looked up before the key is checked.
report_closed_lookup_first(id, api_key) ==
    /\ request' = Request("report_closed", id, api_key, NoForm)
    /\ IF id \notin DOMAIN table
       THEN /\ response' = Response(404, "error", {})
            /\ UNCHANGED table
       ELSE IF Forbidden(api_key, top_secret_key)
            THEN /\ response' = Response(403, "error", {})
                 /\ UNCHANGED table
            ELSE /\ table' = Delete(table, id)
                 /\ response' = Response(200, "success", {})
    /\ UNCHANGED <<cafe_id_seq, top_secret_key, assigned>>

report_closed(id, api_key) ==
    /\ request' = Request("report_closed", id, api_key, NoForm)
    /\ IF Forbidden(api_key, top_secret_key)
       THEN /\ response' = Response(403, "error", {})
            /\ UNCHANGED table
       ELSE IF id \in DOMAIN table
            THEN /\ table' = Delete(table, id)
                 /\ response' = Response(200, "success", {})
            ELSE /\ response' = Response(404, "error", {})
                 /\ UNCHANGED table
    /\ UNCHANGED <<cafe_id_seq, top_secret_key, assigned>>

----------------------------------------------------------------------------

Next ==
    \/ all_cafes
    \/ \E loc \in Locs : search_cafes(loc)
    \/ \E form \in Forms : add(form)
    \/ \E id \in Ids, new_price \in NewPrices : update_price(id, new_price)
    \/ \E id \in Ids, api_key \in ApiKeys : report_closed(id, api_key)

Spec == Init /\ [][Next]_vars

----------------------------------------------------------------------------
(* Properties.  In an action property, the primed request and response are *)
(* the request a step handles and its response; table is the table before  *)
(* the step and table' the table after it.                                 *)

\* What a row looks like in a JSON payload, written out column by column.
Listed(cafe) ==
    [id |-> cafe.id, name |-> cafe.name, map_url |-> cafe.map_url,
     img_url |-> cafe.img_url, location |-> cafe.location, seats |-> cafe.seats,
     has_toilet |-> cafe.has_toilet, has_wifi |-> cafe.has_wifi,
     has_sockets |-> cafe.has_sockets, can_take_calls |-> cafe.can_take_calls,
     coffee_price |-> cafe.coffee_price]

NameTaken(t, name) == \E i \in DOMAIN t : t[i].name = name

\* C1: a report-closed request whose api_key differs from the secret is
\* answered 403 and leaves the table as it was, whether or not the id exists.
C1_WrongKeyIs403 ==
    [][(request'.op = "report_closed" /\ request'.arg # top_secret_key)
       => (response'.status = 403 /\ response'.key = "error" /\ table' = table)]_vars

\* C1 witness: a wrong key with an id that no row has was answered 403.
C1_Witness ==
    /\ request.op = "report_closed"
    /\ request.arg # top_secret_key
    /\ request.id \notin DOMAIN table
    /\ response.status = 403

C3_NamesUnique ==
    /\ [](\A i, j \in DOMAIN table : table[i].name = table[j].name => i = j)
    /\ [][(/\ request'.op = "add"
           /\ "name" \in DOMAIN request'.form
           /\ NameTaken(table, request'.form.name))
          => (response'.status # 200 /\ response'.key # "response"
              /\ table' = table)]_vars

\* C3 witness: an add failed on the name alone (the id it drew is free).
C3_Witness ==
    /\ request.op = "add"
    /\ response.status = 500
    /\ NameTaken(table, request.form.name)
    /\ cafe_id_seq \notin DOMAIN table

\* C4: update_price for an existing id answers 200, sets the row's
\* coffee_price to new_price and changes nothing else; and over every step,
\* a row that stays in the table keeps every field but coffee_price.
C4_OnlyPriceChanges ==
    [][/\ (request'.op = "update_price" /\ request'.id \in DOMAIN table)
          => /\ response'.status = 200
             /\ DOMAIN table' = DOMAIN table
             /\ table'[request'.id].coffee_price = request'.arg
             /\ \A i \in (DOMAIN table) \ {request'.id} : table'[i] = table[i]
       /\ \A i \in (DOMAIN table) \cap (DOMAIN table') :
             \A column \in Columns \ {"coffee_price"} :
                table'[i][column] = table[i][column]]_vars

\* C4 witness: the price of the first row was changed by update_price.
C4_Witness ==
    /\ request.op = "update_price"
    /\ response.status = 200
    /\ request.id \in DOMAIN table
    /\ table[request.id].coffee_price = request.arg
    /\ table[request.id].name = newcafe.name
    /\ table[request.id].coffee_price # newcafe.coffee_price

\* C5: update_price for an id that no row has answers 404 with an error
\* payload and leaves the table as it was, whatever new_price is.
C5_UpdateMissingIs404 ==
    [][(request'.op = "update_price" /\ request'.id \notin DOMAIN table)
       => (response'.status = 404 /\ response'.key = "error" /\ table' = table)]_vars

\* C5 witness: update_price without new_price for an id that no row has.
C5_Witness ==
    /\ request.op = "update_price"
    /\ request.arg = None
    /\ request.id \notin DOMAIN table
    /\ response.status = 404

\* C6: a successful add inserts exactly one row, under an id no row had,
\* holding the submitted strings and, for each boolean field, whether the
\* submitted string is the literal "True"; the rows that were there are
\* unchanged; and list-all returns every row of the table, column by column.
C6_AddThenList ==
    [][/\ (request'.op = "add" /\ response'.status = 200)
          => \E new \in (DOMAIN table') \ (DOMAIN table) :
                LET form == request'.form
                    row == table'[new]
                IN  /\ DOMAIN table' = (DOMAIN table) \cup {new}
                    /\ Cardinality(DOMAIN table') = Cardinality(DOMAIN table) + 1
                    /\ \A i \in DOMAIN table : table'[i] = table[i]
                    /\ row.id = new
                    /\ row.name = form.name
                    /\ row.map_url = form.map_url
                    /\ row.img_url = form.img_url
                    /\ row.location = form.location
                    /\ row.seats = form.seats
                    /\ row.coffee_price = Some(form.coffee_price)
                    /\ row.has_toilet = (form.has_toilet = "True")
                    /\ row.has_wifi = (form.has_wifi = "True")
                    /\ row.has_sockets = (form.has_sockets = "True")
                    /\ row.can_take_calls = (form.can_take_calls = "True")
       /\ request'.op = "all"
          => /\ response'.status = 200
             /\ response'.key = "cafes"
             /\ response'.cafes = {Listed(table[i]) : i \in DOMAIN table}
             /\ table' = table]_vars

\* C6 witness: list-all shows a row that was added with has_sockets "true"
\* and can_take_calls "1", next to a row of the start.
C6_Witness ==
    /\ request.op = "all"
    /\ \E d \in response.cafes :
          /\ d.name = "Joe's"
          /\ d.location = "Soho"
          /\ d.has_toilet /\ d.has_wifi /\ ~d.has_sockets /\ ~d.can_take_calls
    /\ \E d \in response.cafes : d.name = newcafe1.name

\* C7: search answers 200 and leaves the table alone; when some row's
\* location is exactly loc the payload is cafes with exactly those rows, and
\* otherwise (also without loc) it is an error; it is never an empty list.
C7_SearchExact ==
    [][request'.op = "search"
       => LET matched == {i \in DOMAIN table : Some(table[i].location) = request'.arg}
          IN  /\ response'.status = 200
              /\ table' = table
              /\ IF matched # {}
                 THEN /\ response'.key = "cafes"
                      /\ response'.cafes = {Listed(table[i]) : i \in matched}
                 ELSE /\ response'.key = "error"
                      /\ response'.cafes = {}
              /\ ~(response'.key = "cafes" /\ response'.cafes = {})]_vars

\* C7 witness: a search for "peckham" found nothing although rows are in "Peckham".
C7_Witness ==
    /\ request.op = "search"
    /\ request.arg = Some("peckham")
    /\ response.key = "error"
    /\ response.status = 200
    /\ \E i \in DOMAIN table : table[i].location = "Peckham"

\* C8: every row is stored under its own id, no step changes the id of a row,
\* and a row is never created with an id that an earlier row had.
C8_IdsNeverReused ==
    /\ [](\A i \in DOMAIN table : table[i].id = i)
    /\ [][/\ \A i \in (DOMAIN table) \cap (DOMAIN table') : table'[i].id = table[i].id
          /\ \A i \in (DOMAIN table') \ (DOMAIN table) : i \notin assigned]_vars

\* C9: an add that leaves out one of the ten form fields is answered as a
\* bad request, without the success payload, and inserts no row.
C9_MissingFieldIs400 ==
    [][(request'.op = "add" /\ \E f \in FormFields : f \notin DOMAIN request'.form)
       => (response'.status = 400 /\ response'.key # "response" /\ table' = table)]_vars

\* C9 witness: an add without coffee_price was refused.
C9_Witness ==
    /\ request.op = "add"
    /\ DOMAIN request.form = FormFields \ {"coffee_price"}
    /\ response.status = 400

\* C10: with the secret unset, a report-closed request without api_key
\* deletes the row (200) or answers 404 when no row has the id, and one with
\* any api_key string, the empty one included, is answered 403.
C10_UnsetSecret ==
    [][(top_secret_key = None /\ request'.op = "report_closed")
       => IF request'.arg = None
          THEN IF request'.id \in DOMAIN table
               THEN /\ response'.status = 200
                    /\ DOMAIN table' = (DOMAIN table) \ {request'.id}
               ELSE /\ response'.status = 404
                    /\ table' = table
          ELSE /\ response'.status = 403
               /\ table' = table]_vars

\* C10 witness: with the secret unset, a request without api_key deleted a row.
C10_Witness ==
    /\ top_secret_key = None
    /\ request.op = "report_closed"
    /\ request.arg = None
    /\ response.status = 200
    /\ request.id \notin DOMAIN table

====
